---- MODULE Spec2Model ----
(***************************************************************************)
(* Model of routes/pdf_converter_optimized.py: the chunked, retrying,      *)
(* timeout-bounded text-to-speech pipeline text_to_mp3_optimized, with its *)
(* background thread `convert` and the two retry wrappers                  *)
(* create_tts_with_retry and save_tts_with_retry, and the request handler  *)
(* upload_file that calls it.                                              *)
(*                                                                         *)
(* The handler, which runs text_to_mp3_optimized as the supervising        *)
(* caller, and the background thread are two processes.                    *)
(* The gTTS backend and the file system are the environment: a backend     *)
(* call may succeed, fail, or never return (the thread then takes no       *)
(* further step).                                                          *)
(***************************************************************************)
EXTENDS Integers, Sequences, FiniteSets, TLC

VARIABLES
    request,     \* the upload request: what upload_file reads from Flask
    other,       \* a second request being served at the same time
    h,           \* position of upload_file
    unique_id,   \* local `unique_id` of upload_file (line 185)
    caught,      \* the exception upload_file caught at line 256, or None
    response,    \* what upload_file returned
    threads,     \* history: the number of threads started for the request
    text,        \* parameter `text` of text_to_mp3_optimized
    language,    \* parameter `language`
    sup,         \* position of the supervising caller (lines 136-146)
    raised,      \* the exception text_to_mp3_optimized raised, or None
    stillAlive,  \* history: the thread had not finished when join(timeout) expired
    pc,          \* position of the background thread `convert`
    result,      \* the dict `result` shared by both (line 83)
    chunked,     \* which branch of line 93 the thread took
    chunks,      \* local `chunks` (line 95)
    temp_files,  \* local `temp_files` (line 98)
    i,           \* loop index of line 99
    k,           \* position of the combining loop of line 118
    tts,         \* local `tts`: the gTTS object last created
    attempt,     \* loop variable `attempt` of the running retry wrapper
    wr,          \* history of the retry wrapper last entered
    delays,      \* history: the inter-chunk sleeps performed, in order
    started,     \* history: chunk indices (0 for an unsplit text) in order of
                 \* their first synthesis attempt
    persisted,   \* history: the same, in order of completion of their persist
    buffered,    \* the bytes written to `outfile` (line 120) that are still in
                 \* its buffer and not in the file
    calls,       \* history, kept where `on`: the calls of gTTS(...) and of
                 \* tts.save(...) made for the current chunk, and all calls
    fs           \* the file system: path -> [exists, bytes]

vars == <<request, other, h, unique_id, caught, response, threads, text, language, sup, raised, stillAlive, pc, result, chunked, chunks,
          temp_files, i, k, tts, attempt, wr, delays, started, persisted, calls,
          buffered, fs>>

reqVars == <<request, other, h, unique_id, caught, response>>
supVars == <<sup, raised, stillAlive, threads>>
threadVars == <<pc, result, chunked, chunks, temp_files, i, k, tts, attempt, wr,
                delays, started, persisted, calls, buffered>>
workerVars == <<pc, result, chunked, chunks, temp_files, i, k, tts, attempt, wr,
                delays, started, persisted, calls, buffered, fs>>

(***************************************************************************)
(* Bounds of the model.                                                    *)
(***************************************************************************)
\* Texts have at most MaxChunks * max_chunk_size characters.
MaxChunks == 3

(***************************************************************************)
(* Constants of the program.                                               *)
(***************************************************************************)
max_chunk_size == 1000
chunk_delay == 2
max_retries == 3
timeout == 900

Min(a, b) == IF a < b THEN a ELSE b

\* The text lengths explored: just below, at and just above every multiple of
\* the chunk size, and the middle of every chunk.
TextLens ==
    {n \in 1..(MaxChunks * max_chunk_size) :
        (n % max_chunk_size) \in {0, 1, max_chunk_size \div 2, max_chunk_size - 1}}

\* A text of n pairwise distinct characters: any loss, duplication or
\* reordering of characters by the chunker shows in the result.
TextOf(n) == [c \in 1..n |-> c]

Languages == {"en", "es"}

\* The value None of result['error'].
None == [op |-> "None", attempt |-> 0]

\* str(e) of the exception a backend call or file operation raised: which
\* call it was and on which attempt (1-based) of its retry wrapper.
ErrorOf(op, a) == [op |-> op, attempt |-> a]

\* What text_to_mp3_optimized has raised to its caller, if anything.
NoException == [kind |-> "None", detail |-> None, after |-> 0]

(***************************************************************************)
(* Python's slicing and range, as line 95 uses them.                       *)
(***************************************************************************)
\* A slice that stops one character early.
PySliceShort(s, a, b) == SubSeq(s, a + 1, Min(b - 1, Len(s)))

\* s[a:b] for 0 <= a <= b: the characters at 0-based positions a..b-1 that exist.
PySlice(s, a, b) == SubSeq(s, a + 1, Min(b, Len(s)))

\* A range that includes its stop: range(0, stop + 1, step).
PyRangeInclusive(stop, step) ==
    [n \in 1..((stop + step) \div step) |-> (n - 1) * step]

\* range(0, stop, step) as a sequence.
PyRange(stop, step) ==
    [n \in 1..((stop + step - 1) \div step) |-> (n - 1) * step]

\* chunks = [text[i:i+max_chunk_size] for i in range(0, len(text), max_chunk_size)]
Chunker(s) ==
    LET starts == PyRange(Len(s), max_chunk_size)
    IN  [n \in DOMAIN starts |-> PySlice(s, starts[n], starts[n] + max_chunk_size)]

RECURSIVE Concat(_)
Concat(ss) == IF ss = <<>> THEN <<>> ELSE Head(ss) \o Concat(Tail(ss))

(***************************************************************************)
(* File names. A name is a sequence of tokens: plain parts ("a", "0"),     *)
(* parts that start with a dot (".pdf", ".chunk_") and the path part "../". *)
(***************************************************************************)
\* The tokens that contain a '.', and what follows the (last) '.' in each.
AfterDot ==
    [tok \in {".pdf", ".PDF", ".txt", ".mp3", ".chunk_", "../"} |->
        CASE tok = ".pdf" -> "pdf" [] tok = ".PDF" -> "PDF"
          [] tok = ".txt" -> "txt" [] tok = ".mp3" -> "mp3"
          [] tok = ".chunk_" -> "chunk_" [] tok = "../" -> "/"]

\* str.lower() of one token.
Lower(tok) == CASE tok = "PDF" -> "pdf" [] tok = ".PDF" -> ".pdf" [] OTHER -> tok

\* The position of the token holding the last '.', 0 when there is no '.'.
LastDot(filename) ==
    LET dots == {n \in DOMAIN filename : filename[n] \in DOMAIN AfterDot}
    IN  IF dots = {} THEN 0 ELSE CHOOSE n \in dots : \A m \in dots : m <= n

\* filename.rsplit('.', 1)[1]
RSplitDot(filename) ==
    <<AfterDot[filename[LastDot(filename)]]>>
        \o SubSeq(filename, LastDot(filename) + 1, Len(filename))

\* '.' in filename and filename.rsplit('.', 1)[1].lower() == 'pdf'
allowed_file(filename) ==
    /\ LastDot(filename) > 0
    /\ [n \in DOMAIN RSplitDot(filename) |-> Lower(RSplitDot(filename)[n])] = <<"pdf">>

\* werkzeug's secure_filename: a name with its path parts taken out.
secure_filename(filename) ==
    SelectSeq(filename, LAMBDA tok : tok # "../")

\* os.path.splitext(name)[0]: the name without its last extension.
SplitextRoot(name) ==
    IF LastDot(name) > 1 THEN SubSeq(name, 1, LastDot(name) - 1) ELSE name

UPLOAD_FOLDER == "uploads"
OUTPUT_FOLDER == "outputs"

\* pdf_path for a request identifier and an uploaded file name.
PdfPath(id, filename) ==
    <<UPLOAD_FOLDER, "/", id, "_">> \o secure_filename(filename)

\* mp3_filename = f"{unique_id}_{os.path.splitext(secure_filename(...))[0]}.mp3"
Mp3Filename(id, filename) ==
    <<id, "_">> \o SplitextRoot(secure_filename(filename)) \o <<".mp3">>

\* mp3_path for a request identifier and an uploaded file name.
Mp3Path(id, filename) == <<OUTPUT_FOLDER, "/">> \o Mp3Filename(id, filename)

Str(n) == <<"0", "1", "2", "3", "4", "5", "6", "7", "8", "9">>[n + 1]

\* f"{output_path}.chunk_{i}.mp3" for an output path and a chunk index.
ChunkPath(out, n) == out \o <<".chunk_", Str(n), ".mp3">>

\* Every path a request with this identifier and file name can touch.
PathsOf(id, filename) ==
    {PdfPath(id, filename), Mp3Path(id, filename)}
        \cup {ChunkPath(Mp3Path(id, filename), n) : n \in 0..MaxChunks}

(***************************************************************************)
(* Paths and files of the request.                                         *)
(***************************************************************************)
pdf_path == PdfPath(unique_id, request.filename)

\* The output_path text_to_mp3_optimized is called with: mp3_path (line 241).
output_path == Mp3Path(unique_id, request.filename)

\* temp_file = f"{output_path}.chunk_{i}.mp3"
TempFile(n) == ChunkPath(output_path, n)

Paths == PathsOf(unique_id, request.filename)

Absent == [exists |-> FALSE, bytes |-> <<>>]
File(b) == [exists |-> TRUE, bytes |-> b]

\* The audio the backend produces for a gTTS object: one frame per character,
\* in text order, each depending on the character and the language.
Audio(t) == [n \in 1..Len(t.text) |-> <<t.lang, t.text[n]>>]

\* What a failed tts.save can leave at its target: nothing new, an empty file
\* that was opened and not written, or the first part of the audio.
Partial(t, old) == {old, File(<<>>), File(SubSeq(Audio(t), 1, 1))}

\* No backend call made yet; `on` tells whether calls are counted at all.
NoCalls(on) == [on |-> on, create |-> 0, save |-> 0, total |-> 0]

(***************************************************************************)
(* Upload requests.                                                        *)
(***************************************************************************)
\* max_size = 10 * 1024 * 1024
max_size == 10 * 1024 * 1024

max_text_length == 30000

supported_languages == {"en", "es", "fr", "de", "it", "pt", "ru", "ja", "ko", "zh"}

\* The 40 characters of "... (text truncated due to length limit)".
TruncationMark == [n \in 1..40 |-> 0 - n]

\* The whitespace character, and str.strip().
Space == 0
PyStrip(t) ==
    LET solid == {n \in DOMAIN t : t[n] # Space}
    IN  IF solid = {} THEN <<>>
        ELSE SubSeq(t, CHOOSE n \in solid : \A m \in solid : n <= m,
                       CHOOSE n \in solid : \A m \in solid : m <= n)

\* request.form.get(key, default), the form being a sequence of
\* <<key, value>> fields.
FormGet(form, key, default) ==
    LET at == {n \in DOMAIN form : form[n][1] = key}
    IN  IF at = {} THEN default
        ELSE form[CHOOSE n \in at : \A m \in at : n <= m][2]

\* File names a client may send: none, two that are not PDF names, a PDF
\* name, and a PDF name with a path part and an upper-case extension.
UploadNames ==
    {<<>>, <<"a">>, <<"a", ".txt">>, <<"a", ".pdf">>, <<"../", "b", ".PDF">>}

\* What the uploaded bytes are: not a PDF, a PDF without pages, a PDF whose
\* pages cannot be read, a readable PDF.
PdfKinds == {"not_pdf", "no_pages", "unreadable", "ok"}

\* The text of the uploaded PDF: none, whitespace only, one chunk, several.
UploadTexts ==
    {<<>>, <<Space, Space>>, TextOf(max_chunk_size),
     TextOf((MaxChunks - 1) * max_chunk_size - max_chunk_size \div 2)}

\* The form of the request: no language field, or one with a supported, an
\* unsupported, a wrongly-cased or an empty code.
Forms ==
    {<<>>} \cup {<<<<"language", l>>>> : l \in {"en", "es", "zh", "xx", "EN", ""}}

Requests ==
    [has_file : BOOLEAN, filename : UploadNames, size : {max_size, max_size + 1},
     pdf : PdfKinds, text : UploadTexts, form : Forms]

\* The values str(uuid.uuid4()) can take.
Ids == {"u1", "u2"}

\* No second request is being served.
NoOther == [id |-> "", filename |-> <<>>]

\* An identifier generator that can repeat an identifier in use.
NewIdRepeating == Ids

\* str(uuid.uuid4()): an identifier no other request has.
NewId == Ids \ {other.id}

\* upload_file has not returned yet.
NoResponse ==
    [status |-> 0, error |-> "", exception |-> NoException,
     filename |-> <<>>, text_length |-> 0]

(***************************************************************************)
(* Initial states.                                                         *)
(***************************************************************************)
\* The thread of text_to_mp3_optimized is not started and nothing has been
\* recorded.
Unstarted ==
    /\ raised = NoException
    /\ stillAlive = FALSE
    /\ threads = 0
    /\ pc = "unstarted"
    /\ result = [success |-> FALSE, error |-> None]
    /\ chunked = FALSE
    /\ chunks = <<>>
    /\ temp_files = <<>>
    /\ i = 0
    /\ k = 0
    /\ tts = [text |-> <<>>, lang |-> "en"]
    /\ attempt = 0
    /\ wr = [op |-> "None", events |-> <<>>, outcome |-> "None"]
    /\ delays = <<>>
    /\ started = <<>>
    /\ persisted = <<>>
    /\ buffered = <<>>

\* text_to_mp3_optimized has been called with `text` and `language` by a
\* request for a.pdf (line 83 has run), and no file of the request exists.
Fresh ==
    /\ request = [has_file |-> TRUE, filename |-> <<"a", ".pdf">>, size |-> Len(text),
                  pdf |-> "ok", text |-> text, form |-> <<<<"language", language>>>>]
    /\ other = NoOther
    /\ h = "converting"
    /\ unique_id = "u1"
    /\ caught = NoException
    /\ response = NoResponse
    /\ sup = "start"
    /\ Unstarted
    /\ fs = [p \in Paths |-> Absent]

Init ==
    /\ text \in {TextOf(n) : n \in TextLens}
    /\ language \in Languages
    /\ calls = NoCalls(FALSE)
    /\ Fresh

\* thread.is_alive()
IsAlive == pc \notin {"unstarted", "done", "failed"}

(***************************************************************************)
(* The background thread: convert (lines 85-133).                          *)
(***************************************************************************)
\* The text and the target of the synthesize+persist group in progress.
CurText == IF chunked THEN chunks[i + 1] ELSE text
CurTarget == IF chunked THEN TempFile(i) ELSE output_path

\* except Exception as e: result['error'] = str(e)   (lines 131-133)
Fail(err) ==
    /\ result' = [result EXCEPT !.error = err]
    /\ pc' = "failed"

\* The branch of line 93 taken with >= in place of >.
ConvertAtLimit ==
    /\ pc = "convert"
    /\ IF Len(text) >= max_chunk_size
         THEN /\ chunked' = TRUE
              /\ chunks' = Chunker(text)
         ELSE /\ chunked' = FALSE
              /\ chunks' = chunks
    /\ temp_files' = <<>>
    /\ i' = 0
    /\ attempt' = 0
    /\ pc' = "create"
    /\ UNCHANGED <<reqVars, buffered, text, language, calls, supVars, result, k, tts, wr, delays, started,
                   persisted, fs>>

\* Lines 93-98 and 124-125: the branch on the text length, and the chunking.
Convert ==
    /\ pc = "convert"
    /\ IF Len(text) > max_chunk_size
         THEN /\ chunked' = TRUE
              /\ chunks' = Chunker(text)
         ELSE /\ chunked' = FALSE
              /\ chunks' = chunks
    /\ temp_files' = <<>>
    /\ i' = 0
    /\ attempt' = 0
    /\ pc' = "create"
    /\ UNCHANGED <<reqVars, buffered, text, language, calls, supVars, result, k, tts, wr, delays, started,
                   persisted, fs>>

\* The events of a retry wrapper's history: a call of the wrapped function,
\* and a sleep of t seconds.
CallEvent == <<"call", 0>>
SleepEvent(t) == <<"sleep", t>>

\* The count of calls after one more call of `op`.
Counted(op) ==
    IF ~calls.on THEN calls
    ELSE [calls EXCEPT ![op] = @ + 1, !.total = @ + 1]

\* The history of the retry wrapper `op` after one more call with `outcome`.
Called(op, outcome) ==
    [op |-> op,
     events |-> Append(IF attempt = 0 THEN <<>> ELSE wr.events, CallEvent),
     outcome |-> outcome]

\* A wait that does not grow with the attempt.
WaitTimeConstant(a) == 2

\* A wait computed from the 0-based attempt.
WaitTimeZeroBased(a) == a * 2

\* wait_time = (attempt + 1) * 2   (lines 58 and 75)
WaitTime(a) == (a + 1) * 2

\* One attempt of create_tts_with_retry (lines 49-62): gTTS(text, lang) either
\* returns the object, and the wrapper returns it, or raises, and the wrapper
\* goes to sleep or, on the last attempt, raises in turn.
CreateAttempt ==
    /\ pc = "create"
    /\ calls' = Counted("create")
    /\ started' = IF attempt = 0 THEN Append(started, i) ELSE started
    /\ \E ok \in BOOLEAN :
         IF ok
         THEN /\ tts' = [text |-> CurText, lang |-> language]
              /\ wr' = Called("create", "returned")
              /\ attempt' = 0
              /\ pc' = "save"
              /\ UNCHANGED result
         ELSE IF attempt < max_retries - 1
         THEN /\ wr' = Called("create", "running")
              /\ pc' = "create_wait"
              /\ UNCHANGED <<result, tts, attempt>>
         ELSE /\ wr' = Called("create", "raised")
              /\ Fail(ErrorOf("create", attempt + 1))
              /\ UNCHANGED <<tts, attempt>>
    /\ UNCHANGED <<reqVars, buffered, text, language, supVars, chunked, chunks, temp_files, i, k,
                   delays, persisted, fs>>

\* time.sleep(wait_time) of create_tts_with_retry (lines 58-60), then the
\* next iteration of its loop.
CreateWait ==
    /\ pc = "create_wait"
    /\ wr' = [wr EXCEPT !.events = Append(@, SleepEvent(WaitTime(attempt)))]
    /\ attempt' = attempt + 1
    /\ pc' = "create"
    /\ UNCHANGED <<reqVars, buffered, text, language, calls, supVars, result, chunked, chunks, temp_files,
                   i, k, tts, delays, started, persisted, fs>>

\* What follows a completed persist: lines 107-113 in the chunked branch
\* (record the temporary file, then sleep before the next chunk or leave
\* the loop), line 128 in the other.
AfterSave ==
    /\ persisted' = Append(persisted, i)
    /\ IF chunked
       THEN /\ temp_files' = Append(temp_files, TempFile(i))
            /\ pc' = IF i < Len(chunks) - 1 THEN "delay" ELSE "open_out"
       ELSE /\ temp_files' = temp_files
            /\ pc' = "finish"

\* A file written through a handle opened earlier: the bytes show under the
\* path only if the file has not been removed since it was opened.
Written(path, file) ==
    IF fs[path].exists THEN [fs EXCEPT ![path] = file] ELSE fs

\* tts.save(path) (line 69) opens its target for writing before it asks the
\* backend for the audio: while the call waits, the target exists and is empty.
SaveOpen ==
    /\ pc = "save"
    /\ fs' = [fs EXCEPT ![CurTarget] = File(<<>>)]
    /\ pc' = "saving"
    /\ UNCHANGED <<reqVars, buffered, text, language, calls, supVars, result, chunked,
                   chunks, temp_files, i, k, tts, attempt, wr, delays, started,
                   persisted>>

\* A persist that gives up on its chunk after the last attempt and lets the
\* conversion go on with the next one.
SaveAttemptSkip ==
    /\ pc = "saving"
    /\ calls' = Counted("save")
    /\ \E ok \in BOOLEAN :
         IF ok
         THEN /\ fs' = Written(CurTarget, File(Audio(tts)))
              /\ wr' = Called("save", "returned")
              /\ attempt' = 0
              /\ AfterSave
              /\ UNCHANGED result
         ELSE /\ \E left \in Partial(tts, fs[CurTarget]) :
                   fs' = Written(CurTarget, left)
              /\ IF attempt < max_retries - 1
                 THEN /\ wr' = Called("save", "running")
                      /\ pc' = "save_wait"
                      /\ UNCHANGED <<result, attempt, temp_files, persisted>>
                 ELSE /\ wr' = Called("save", "raised")
                      /\ attempt' = 0
                      /\ pc' = IF chunked /\ i < Len(chunks) - 1
                                THEN "delay" ELSE "finish"
                      /\ UNCHANGED <<result, temp_files, persisted>>
    /\ UNCHANGED <<reqVars, buffered, text, language, supVars, chunked, chunks, i, k, tts, delays,
                   started>>

\* The end of one attempt of save_tts_with_retry (lines 66-79): tts.save(path)
\* either has written the whole audio to the file it opened and returns, or
\* raises and leaves that file empty or partly written.
SaveAttempt ==
    /\ pc = "saving"
    /\ calls' = Counted("save")
    /\ \E ok \in BOOLEAN :
         IF ok
         THEN /\ fs' = Written(CurTarget, File(Audio(tts)))
              /\ wr' = Called("save", "returned")
              /\ attempt' = 0
              /\ AfterSave
              /\ UNCHANGED result
         ELSE /\ \E left \in Partial(tts, fs[CurTarget]) :
                   fs' = Written(CurTarget, left)
              /\ IF attempt < max_retries - 1
                 THEN /\ wr' = Called("save", "running")
                      /\ pc' = "save_wait"
                      /\ UNCHANGED <<result, attempt, temp_files, persisted>>
                 ELSE /\ wr' = Called("save", "raised")
                      /\ Fail(ErrorOf("save", attempt + 1))
                      /\ UNCHANGED <<attempt, temp_files, persisted>>
    /\ UNCHANGED <<reqVars, buffered, text, language, supVars, chunked, chunks, i, k, tts, delays,
                   started>>

\* A failed persist that goes back to synthesizing the chunk before it
\* tries again.
SaveWaitRecreate ==
    /\ pc = "save_wait"
    /\ wr' = [wr EXCEPT !.events = Append(@, SleepEvent(WaitTime(attempt)))]
    /\ attempt' = attempt + 1
    /\ pc' = "create"
    /\ UNCHANGED <<reqVars, buffered, text, language, calls, supVars, result, chunked, chunks,
                   temp_files, i, k, tts, delays, started, persisted, fs>>

\* time.sleep(wait_time) of save_tts_with_retry (lines 75-77).
SaveWait ==
    /\ pc = "save_wait"
    /\ wr' = [wr EXCEPT !.events = Append(@, SleepEvent(WaitTime(attempt)))]
    /\ attempt' = attempt + 1
    /\ pc' = "save"
    /\ UNCHANGED <<reqVars, buffered, text, language, calls, supVars, result, chunked, chunks, temp_files,
                   i, k, tts, delays, started, persisted, fs>>

\* A loop that steps over a chunk.
ChunkDelaySkip ==
    /\ pc = "delay"
    /\ delays' = Append(delays, chunk_delay)
    /\ i' = IF i + 2 < Len(chunks) THEN i + 2 ELSE i + 1
    /\ attempt' = 0
    /\ pc' = "create"
    /\ calls' = [calls EXCEPT !.create = 0, !.save = 0]
    /\ UNCHANGED <<reqVars, buffered, text, language, supVars, result, chunked, chunks, temp_files,
                   k, tts, wr, started, persisted, fs>>

\* A loop that goes on to the next chunk without sleeping.
ChunkDelayNoSleep ==
    /\ pc = "delay"
    /\ delays' = delays
    /\ i' = i + 1
    /\ attempt' = 0
    /\ pc' = "create"
    /\ calls' = [calls EXCEPT !.create = 0, !.save = 0]
    /\ UNCHANGED <<reqVars, buffered, text, language, supVars, result, chunked, chunks, temp_files,
                   k, tts, wr, started, persisted, fs>>

\* time.sleep(chunk_delay) between two chunks (lines 111-113), then the next
\* iteration of the loop of line 99.
ChunkDelay ==
    /\ pc = "delay"
    /\ delays' = Append(delays, chunk_delay)
    /\ i' = i + 1
    /\ attempt' = 0
    /\ pc' = "create"
    /\ calls' = [calls EXCEPT !.create = 0, !.save = 0]
    /\ UNCHANGED <<reqVars, buffered, text, language, supVars, result, chunked, chunks, temp_files,
                   k, tts, wr, started, persisted, fs>>

\* A thread that records success as soon as the destination is opened,
\* before the temporary files are combined.
OpenOutRecordingSuccess ==
    /\ pc = "open_out"
    /\ fs' = [fs EXCEPT ![output_path] = File(<<>>)]
    /\ k' = 0
    /\ result' = [result EXCEPT !.success = TRUE]
    /\ buffered' = <<>>
    /\ pc' = IF temp_files = <<>> THEN "close_out" ELSE "combine"
    /\ UNCHANGED <<reqVars, text, language, calls, supVars, chunked, chunks, temp_files,
                   i, tts, attempt, wr, delays, started, persisted>>

\* open(output_path, 'wb') of line 117: the destination exists and is empty.
OpenOut ==
    /\ pc = "open_out"
    /\ fs' = [fs EXCEPT ![output_path] = File(<<>>)]
    /\ k' = 0
    /\ buffered' = <<>>
    /\ pc' = IF temp_files = <<>> THEN "close_out" ELSE "combine"
    /\ UNCHANGED <<reqVars, text, language, calls, supVars, result, chunked, chunks,
                   temp_files, i, tts, attempt, wr, delays, started, persisted>>

\* The destination after the buffer of `outfile` has been written out.
Flushed == Written(output_path, File(fs[output_path].bytes \o buffered))

\* A combining step that writes each temporary file over the destination
\* in place of appending it.
CombineOverwrite ==
    /\ pc = "combine"
    /\ LET src == temp_files[k + 1]
       IN  \E ok \in BOOLEAN :
             IF ok /\ fs[src].exists
             THEN /\ fs' = Written(output_path, File(fs[src].bytes))
                  /\ buffered' = <<>>
                  /\ pc' = "remove"
                  /\ UNCHANGED result
             ELSE /\ Fail(ErrorOf("read", k + 1))
                  /\ fs' = Flushed
                  /\ buffered' = <<>>
    /\ UNCHANGED <<reqVars, text, language, calls, supVars, chunked, chunks, temp_files,
                   i, k, tts, attempt, wr, delays, started, persisted>>

\* Lines 119-120: read temporary file k whole and write it to `outfile`.
\* Opening or reading the temporary file raises when it is missing, and may
\* raise when it is there (an unreadable file); the exception leaves the
\* with-block of line 117, which closes `outfile`. `outfile` is buffered:
\* bytes that fit the free space of its buffer are added to it; bytes that do
\* not fit make it write out what it holds, and are then kept in the emptied
\* buffer, or, when they are larger than the buffer, written to the file too.
Combine ==
    /\ pc = "combine"
    /\ LET src == temp_files[k + 1]
       IN  \E ok \in BOOLEAN :
             IF ok /\ fs[src].exists
             THEN /\ \E how \in {"fits", "fits_emptied", "larger"} :
                       CASE how = "fits" ->
                              /\ buffered' = buffered \o fs[src].bytes
                              /\ fs' = fs
                         [] how = "fits_emptied" ->
                              /\ fs' = Flushed
                              /\ buffered' = fs[src].bytes
                         [] how = "larger" ->
                              /\ fs' = Written(output_path,
                                         File(fs[output_path].bytes \o buffered
                                                  \o fs[src].bytes))
                              /\ buffered' = <<>>
                  /\ pc' = "remove"
                  /\ UNCHANGED result
             ELSE /\ Fail(ErrorOf("read", k + 1))
                  /\ fs' = Flushed
                  /\ buffered' = <<>>
    /\ UNCHANGED <<reqVars, text, language, calls, supVars, chunked, chunks, temp_files,
                   i, k, tts, attempt, wr, delays, started, persisted>>

\* os.remove(temp_file) of line 121, then the next iteration of line 118 or
\* the end of the loop. An exception leaves the with-block of line 117, which
\* closes `outfile`.
Remove ==
    /\ pc = "remove"
    /\ LET src == temp_files[k + 1]
       IN  IF fs[src].exists
           THEN /\ fs' = [fs EXCEPT ![src] = Absent]
                /\ k' = k + 1
                /\ pc' = IF k + 1 < Len(temp_files) THEN "combine" ELSE "close_out"
                /\ UNCHANGED <<result, buffered>>
           ELSE /\ Fail(ErrorOf("remove", k + 1))
                /\ fs' = Flushed
                /\ buffered' = <<>>
                /\ UNCHANGED k
    /\ UNCHANGED <<reqVars, text, language, calls, supVars, chunked, chunks, temp_files,
                   i, tts, attempt, wr, delays, started, persisted>>

\* The end of the with-block of line 117: `outfile` is closed, and what its
\* buffer held is written to the file.
CloseOut ==
    /\ pc = "close_out"
    /\ fs' = Flushed
    /\ buffered' = <<>>
    /\ pc' = "finish"
    /\ UNCHANGED <<reqVars, text, language, calls, supVars, result, chunked, chunks,
                   temp_files, i, k, tts, attempt, wr, delays, started, persisted>>

\* result['success'] = True (line 130); convert returns and the thread ends.
Finish ==
    /\ pc = "finish"
    /\ result' = [result EXCEPT !.success = TRUE]
    /\ pc' = "done"
    /\ UNCHANGED <<reqVars, buffered, text, language, calls, supVars, chunked, chunks, temp_files, i, k,
                   tts, attempt, wr, delays, started, persisted, fs>>

Worker ==
    \/ Convert
    \/ CreateAttempt
    \/ CreateWait
    \/ SaveOpen
    \/ SaveAttempt
    \/ SaveWait
    \/ ChunkDelay
    \/ OpenOut
    \/ Combine
    \/ Remove
    \/ CloseOut
    \/ Finish

(***************************************************************************)
(* The supervising caller: lines 136-146 of text_to_mp3_optimized.         *)
(***************************************************************************)
\* thread.start() (lines 136-138), then the caller enters thread.join(timeout).
Start ==
    /\ sup = "start"
    /\ pc' = "convert"
    /\ sup' = "join"
    /\ threads' = threads + 1
    /\ UNCHANGED <<reqVars, buffered, text, language, calls, raised, stillAlive, result, chunked, chunks,
                   temp_files, i, k, tts, attempt, wr, delays, started,
                   persisted, fs>>

\* thread.join(timeout) returns because the thread has ended.
JoinReturn ==
    /\ sup = "join"
    /\ ~IsAlive
    /\ sup' = "is_alive"
    /\ UNCHANGED <<reqVars, threads, text, language, raised, stillAlive, workerVars>>

\* A join() without its timeout: it never returns while the thread runs.
JoinForever ==
    /\ sup = "join"
    /\ FALSE
    /\ UNCHANGED vars

\* thread.join(timeout) returns because `timeout` seconds have passed; the
\* thread is still running at that instant.
JoinTimeout ==
    /\ sup = "join"
    /\ IsAlive
    /\ stillAlive' = TRUE
    /\ sup' = "is_alive"
    /\ UNCHANGED <<reqVars, threads, text, language, raised, workerVars>>

\* An outcome that does not read result['success']: a thread that has ended
\* counts as a success.
OutcomeIgnoringResult ==
    /\ sup = "is_alive"
    /\ IF IsAlive
       THEN /\ raised' = [kind |-> "TimeoutError", detail |-> None, after |-> timeout]
            /\ sup' = "raised"
       ELSE /\ raised' = raised
            /\ sup' = "returned"
    /\ UNCHANGED <<reqVars, threads, text, language, stillAlive, workerVars>>

\* Lines 141-146: thread.is_alive() is read after join has returned; then
\* result['success'].
Outcome ==
    /\ sup = "is_alive"
    /\ IF IsAlive
       THEN /\ raised' = [kind |-> "TimeoutError", detail |-> None, after |-> timeout]
            /\ sup' = "raised"
       ELSE IF ~result.success
       THEN /\ raised' = [kind |-> "ConversionError", detail |-> result.error,
                          after |-> 0]
            /\ sup' = "raised"
       ELSE /\ raised' = raised
            /\ sup' = "returned"
    /\ UNCHANGED <<reqVars, threads, text, language, stillAlive, workerVars>>

Supervisor == Start \/ JoinReturn \/ JoinTimeout \/ Outcome

Next == Worker \/ Supervisor

Spec == Init /\ [][Next]_vars

\* The caller's own steps are always taken in the end: thread.start and the
\* reads of lines 141-146 return, and join(timeout) returns at the latest
\* when the timeout has passed. Nothing is assumed of the thread, whose
\* backend calls may never return.
LiveSpec == Spec /\ WF_vars(Supervisor)

\* Every backend call and file operation of the thread returns: the thread,
\* once started, always takes its next step in the end.
TermInit ==
    /\ text \in {TextOf(max_chunk_size),
                 TextOf(MaxChunks * max_chunk_size - max_chunk_size \div 2)}
    /\ language \in Languages
    /\ calls = NoCalls(TRUE)
    /\ Fresh

TermSpec == TermInit /\ [][Next]_vars /\ WF_vars(Start) /\ WF_vars(Worker)

(***************************************************************************)
(* The request handler: upload_file (lines 148-270).                       *)
(***************************************************************************)
\* return jsonify({'error': error}), status
Respond(status, error) ==
    /\ response' = [NoResponse EXCEPT !.status = status, !.error = error]
    /\ h' = "responded"

\* The bytes file.save writes.
PdfBytes == <<<<"pdf", 0>>>>

\* os.remove(pdf_path)
RemovePdf == fs' = [fs EXCEPT ![pdf_path] = Absent]

\* Lines 154-178: the checks made before anything is written.
CheckRequest ==
    /\ h = "request"
    /\ IF ~request.has_file THEN Respond(400, "No file uploaded")
       ELSE IF request.filename = <<>> THEN Respond(400, "No file selected")
       ELSE IF ~allowed_file(request.filename)
            THEN Respond(400, "Only PDF files are allowed")
       ELSE IF request.size > max_size
            THEN Respond(400, "File size must be less than 10MB")
       ELSE h' = "save_upload" /\ UNCHANGED response
    /\ UNCHANGED <<request, other, unique_id, caught, text, language, supVars,
                   threadVars, fs>>

\* Lines 181-191: a fresh identifier is drawn and the upload saved under it.
SaveUpload ==
    /\ h = "save_upload"
    /\ \E id \in NewId :
          /\ unique_id' = id
          /\ fs' = [p \in PathsOf(id, request.filename) |->
                       IF p = PdfPath(id, request.filename)
                       THEN File(PdfBytes) ELSE Absent]
    /\ h' = "validate"
    /\ UNCHANGED <<request, other, caught, response, text, language, supVars,
                   threadVars>>

\* Lines 196-206: fitz.open fails, or the document has no pages.
ValidatePdf ==
    /\ h = "validate"
    /\ IF request.pdf = "not_pdf"
       THEN RemovePdf /\ Respond(400, "Invalid PDF file format")
       ELSE IF request.pdf = "no_pages"
            THEN RemovePdf /\ Respond(400, "Invalid PDF file - no pages found")
       ELSE h' = "extract" /\ UNCHANGED <<response, fs>>
    /\ UNCHANGED <<request, other, unique_id, caught, text, language, supVars,
                   threadVars>>

\* Lines 220-223: text[:max_text_length] + "... (text truncated ...)".
Truncated(t) ==
    IF Len(t) > max_text_length
    THEN PySlice(t, 0, max_text_length) \o TruncationMark
    ELSE t

\* The language a form is converted in, without the check of line 236.
LanguageUnchecked(form) == FormGet(form, "language", "en")

\* Lines 231-237: the language a form is converted in.
LanguageOf(form) ==
    IF FormGet(form, "language", "en") \notin supported_languages
    THEN "en"
    ELSE FormGet(form, "language", "en")

\* Lines 210-241: pdf_to_text raises, or the text is blank, or
\* text_to_mp3_optimized is called.
ExtractText ==
    /\ h = "extract"
    /\ IF request.pdf = "unreadable"
       THEN /\ caught' = [kind |-> "Exception",
                          detail |-> ErrorOf("Error reading PDF", 1), after |-> 0]
            /\ h' = "cleanup_pdf"
            /\ UNCHANGED <<response, fs, text, language, sup>>
       ELSE IF PyStrip(request.text) = <<>>
            THEN /\ RemovePdf
                 /\ Respond(400, "The PDF contains no readable text")
                 /\ UNCHANGED <<caught, text, language, sup>>
       ELSE /\ text' = Truncated(request.text)
            /\ language' = LanguageOf(request.form)
            /\ sup' = "start"
            /\ h' = "converting"
            /\ UNCHANGED <<caught, response, fs>>
    /\ UNCHANGED <<request, other, unique_id, raised, stillAlive, threads,
                   threadVars>>

\* The success path without os.remove(pdf_path).
ConvertReturnedKeepingPdf ==
    /\ h = "converting"
    /\ sup = "returned"
    /\ response' = [NoResponse EXCEPT
                       !.status = 200,
                       !.filename = Mp3Filename(unique_id, request.filename),
                       !.text_length = Len(text)]
    /\ h' = "responded"
    /\ UNCHANGED <<request, other, unique_id, caught, fs, text, language, supVars,
                   threadVars>>

\* Lines 242-254: text_to_mp3_optimized returned; the upload is removed and
\* the success response sent. os.remove raises if the upload is not there.
ConvertReturned ==
    /\ h = "converting"
    /\ sup = "returned"
    /\ IF fs[pdf_path].exists
       THEN /\ RemovePdf
            /\ response' = [NoResponse EXCEPT
                               !.status = 200,
                               !.filename = Mp3Filename(unique_id, request.filename),
                               !.text_length = Len(text)]
            /\ h' = "responded"
            /\ UNCHANGED caught
       ELSE /\ caught' = [kind |-> "FileNotFoundError",
                          detail |-> ErrorOf("remove", 1), after |-> 0]
            /\ h' = "cleanup_pdf"
            /\ UNCHANGED <<response, fs>>
    /\ UNCHANGED <<request, other, unique_id, text, language, supVars, threadVars>>

\* Line 256: text_to_mp3_optimized raised.
ConvertRaised ==
    /\ h = "converting"
    /\ sup = "raised"
    /\ caught' = raised
    /\ h' = "cleanup_pdf"
    /\ UNCHANGED <<request, other, unique_id, response, text, language, supVars,
                   threadVars, fs>>

\* Lines 263-264: the upload is removed if it exists.
CleanupPdf ==
    /\ h = "cleanup_pdf"
    /\ fs' = IF fs[pdf_path].exists THEN [fs EXCEPT ![pdf_path] = Absent] ELSE fs
    /\ h' = "cleanup_mp3"
    /\ UNCHANGED <<request, other, unique_id, caught, response, text, language,
                   supVars, threadVars>>

\* Lines 265-270: the destination is removed if mp3_path was assigned and the
\* file exists, and the failure response is sent.
CleanupMp3 ==
    /\ h = "cleanup_mp3"
    /\ fs' = IF sup # "idle" /\ fs[output_path].exists
             THEN [fs EXCEPT ![output_path] = Absent]
             ELSE fs
    /\ response' = [NoResponse EXCEPT
                       !.status = 500,
                       !.error = "An error occurred during conversion",
                       !.exception = caught]
    /\ h' = "responded"
    /\ UNCHANGED <<request, other, unique_id, caught, text, language, supVars,
                   threadVars>>

Handler ==
    \/ CheckRequest
    \/ SaveUpload
    \/ ValidatePdf
    \/ ExtractText
    \/ ConvertReturned
    \/ ConvertRaised
    \/ CleanupPdf
    \/ CleanupMp3

\* A request has arrived; nothing has been read, written or started.
UploadInit ==
    /\ request \in Requests
    /\ other = NoOther
    /\ h = "request"
    /\ unique_id = ""
    /\ caught = NoException
    /\ response = NoResponse
    /\ text = <<>>
    /\ language = "en"
    /\ sup = "idle"
    /\ calls = NoCalls(FALSE)
    /\ Unstarted
    /\ fs = [p \in {} |-> Absent]

UploadNext == Handler \/ Supervisor \/ Worker

UploadSpec == UploadInit /\ [][UploadNext]_vars

(***************************************************************************)
(* Claims.                                                                 *)
(***************************************************************************)
Returned == sup \in {"raised", "returned"}
TimedOut == sup = "raised" /\ raised.kind = "TimeoutError"

\* C1 as stated: whenever the thread had not finished when the wait of
\* join(timeout) expired, the call ends with the timeout error. It fails: the
\* thread may end between the return of join and the read of is_alive(), and
\* the call then reports the thread's recorded outcome.
C1_TimeoutWheneverWaitExpired ==
    (Returned /\ stillAlive) => TimedOut

\* C1, amended: a thread that is alive when the caller reads is_alive() after
\* its wait makes that very step raise the timeout error, carrying the
\* timeout; once raised, nothing the thread does later (success, failure,
\* never returning) changes what the caller got; and the caller always gets
\* its answer, whatever the thread does.
C1_TimeoutAtCheck ==
    /\ [][(sup = "is_alive" /\ IsAlive /\ sup' # sup)
             => (TimedOut' /\ raised'.after = timeout)]_vars
    /\ [][TimedOut => (sup' = sup /\ raised' = raised)]_vars
    /\ [](TimedOut => stillAlive)
    /\ <>Returned

\* C1's case: the caller got the timeout error and the abandoned thread has
\* later run to a successful end.
C1_Witness == TimedOut /\ pc = "done" /\ result.success

\* The thread has run the whole synthesize/assemble sequence: every chunk
\* was persisted and, when the text was split, every chunk was combined.
WholeSequenceDone ==
    /\ pc = "done"
    /\ Len(persisted) = (IF chunked THEN Len(chunks) ELSE 1)
    /\ chunked => k = Len(chunks)

\* C2: when the thread ended before the wait expired, the call raises the
\* conversion error carrying the recorded failure detail if the thread
\* recorded failure, and returns normally if it recorded success; and a
\* normal return, in any case, means the thread ran the whole sequence.
C2_OutcomeMapping ==
    /\ (Returned /\ ~stillAlive /\ pc = "failed")
          => /\ sup = "raised"
             /\ raised.kind = "ConversionError"
             /\ raised.detail = result.error
             /\ raised.detail # None
    /\ (Returned /\ ~stillAlive /\ pc = "done")
          => sup = "returned" /\ raised = NoException
    /\ sup = "returned" => (result.success /\ WholeSequenceDone)

\* C2's case: the thread failed in a persist before the wait expired and the
\* caller has raised the conversion error.
C2_Witness ==
    /\ sup = "raised"
    /\ ~stillAlive
    /\ raised.kind = "ConversionError"
    /\ raised.detail.op = "save"

\* The events of a retry wrapper that made n calls: call, sleep 1*2, call,
\* sleep 2*2, ..., call.
RetryEvents(n) ==
    [e \in 1..(2 * n - 1) |->
        IF e % 2 = 1 THEN CallEvent ELSE SleepEvent((e \div 2) * 2)]

\* C3: a wrapper whose call fails on every attempt makes exactly max_retries
\* calls, sleeps 1*2, 2*2, ... between consecutive calls and not after the
\* last, and then raises the failure of the last attempt.
C3_RetryExhaustion ==
    wr.outcome = "raised"
       => /\ wr.events = RetryEvents(max_retries)
          /\ wr.events = <<CallEvent, SleepEvent(2), CallEvent, SleepEvent(4),
                           CallEvent>>
          /\ result.error = ErrorOf(wr.op, max_retries)
          /\ pc = "failed"

\* C3's case: the persist of the second chunk has failed on every attempt.
C3_Witness ==
    /\ wr.outcome = "raised"
    /\ wr.op = "save"
    /\ chunked
    /\ i = 1

\* The indices 0..n-1 in increasing order.
Upto(n) == [j \in 1..n |-> j - 1]

\* C4 as stated, for the destination: after any chunk has exhausted its
\* attempts the destination has never been opened. It fails on a text that
\* is not split: its persist attempts write to the destination itself.
C4_DestinationNeverOpened ==
    wr.outcome = "raised" => ~fs[output_path].exists

\* C4, amended: when synthesize or persist of chunk i exhausts its attempts,
\* the thread records failure and stops: no attempt is ever made for a chunk
\* j > i and the assembler never runs; and the destination has never been
\* opened, unless it was the persist of a text that is not split which
\* failed: the target of its attempts is the destination itself.
C4_ExhaustionAborts ==
    /\ [](wr.outcome = "raised"
            => /\ pc = "failed"
               /\ ~result.success
               /\ result.error.op = wr.op
               /\ started = Upto(i + 1)
               /\ persisted = Upto(i)
               /\ k = 0
               /\ \A j \in (i + 1)..MaxChunks : ~fs[TempFile(j)].exists
               /\ (chunked \/ wr.op = "create") => ~fs[output_path].exists)
    /\ [][pc = "failed" => UNCHANGED workerVars]_vars

\* C4's case: the second of three chunks has exhausted its attempts.
C4_Witness ==
    /\ wr.outcome = "raised"
    /\ chunked
    /\ Len(chunks) = 3
    /\ i = 1

\* C5: a wrapper whose call fails k < max_retries times and then succeeds
\* returns after exactly k+1 calls, having slept 1*2 ... k*2 in that order
\* (2 then 4, 6 in all, for k = 2); it makes no further call; and the
\* conversion goes on: the thread fails only where a wrapper exhausts its
\* attempts or the assembler cannot read or remove a file.
C5_RetryRecovery ==
    /\ [](wr.outcome = "returned"
            => /\ \E n \in 1..max_retries : wr.events = RetryEvents(n)
               /\ Len(wr.events) = 5
                     => wr.events = <<CallEvent, SleepEvent(2), CallEvent,
                                      SleepEvent(4), CallEvent>>
               /\ pc \notin {"create_wait", "save_wait"}
               /\ attempt = 0)
    /\ [][(wr.outcome = "returned" /\ wr' # wr)
            => (wr'.op # wr.op /\ wr'.events = <<CallEvent>>)]_vars
    /\ [](pc = "failed"
            => (wr.outcome = "raised" \/ result.error.op \in {"read", "remove"}))

\* C5's case: one persist failed twice and succeeded on its third attempt,
\* and the conversion has succeeded.
C5_Witness ==
    /\ pc = "done"
    /\ result.success
    /\ wr.op = "save"
    /\ wr.outcome = "returned"
    /\ Len(wr.events) = 5

\* C6: the chunks of a text longer than max_chunk_size, concatenated in
\* index order, are the text: no character lost, repeated or moved.
C6_ChunkingRoundTrip ==
    chunked => (Len(text) > max_chunk_size /\ Concat(chunks) = text)

\* C6's case: a text of 2001 characters has been split.
C6_Witness ==
    /\ chunked
    /\ Len(text) = 2 * max_chunk_size + 1
    /\ Len(chunks) = 3

\* C7: every chunk of a text longer than max_chunk_size but the last has
\* exactly max_chunk_size characters, the last has between 1 and
\* max_chunk_size, and there are ceil(len / max_chunk_size) chunks
\* (2500 characters: 1000, 1000, 500).
C7_ChunkSizes ==
    chunked =>
       /\ \A n \in 1..(Len(chunks) - 1) : Len(chunks[n]) = max_chunk_size
       /\ Len(chunks[Len(chunks)]) \in 1..max_chunk_size
       /\ (Len(chunks) - 1) * max_chunk_size < Len(text)
       /\ Len(text) <= Len(chunks) * max_chunk_size
       /\ Len(text) = 2500
             => <<Len(chunks[1]), Len(chunks[2]), Len(chunks[3])>>
                   = <<1000, 1000, 500>>

\* C7's case: a text of 2000 characters, a multiple of the chunk size, has
\* been split.
C7_Witness ==
    /\ chunked
    /\ Len(text) = 2 * max_chunk_size
    /\ Len(chunks) = 2

\* C8: a text of at most max_chunk_size characters (the limit included) is
\* not split: the only synthesize+persist group takes the whole text and
\* writes to the destination, no temporary file is ever created, nothing is
\* combined, and no inter-chunk sleep is made.
C8_ShortTextNotSplit ==
    Len(text) <= max_chunk_size =>
       /\ ~chunked
       /\ chunks = <<>>
       /\ temp_files = <<>>
       /\ \A n \in 0..MaxChunks : ~fs[TempFile(n)].exists
       /\ pc \notin {"delay", "open_out", "combine", "remove", "close_out"}
       /\ k = 0
       /\ delays = <<>>
       /\ started \in {<<>>, <<0>>}
       /\ persisted \in {<<>>, <<0>>}
       /\ wr.outcome # "None" => CurText = text /\ CurTarget = output_path
       /\ tts.text \in {<<>>, text}
       /\ pc = "done"
             => /\ fs[output_path] = File(Audio([text |-> text, lang |-> language]))
                /\ started = <<0>>
                /\ persisted = <<0>>

\* C8's case: a text of exactly max_chunk_size characters has been converted.
C8_Witness ==
    /\ Len(text) = max_chunk_size
    /\ pc = "done"
    /\ result.success

\* The audio of chunk n (1-based) of the running conversion.
ChunkAudio(n) == Audio([text |-> chunks[n], lang |-> language])

RECURSIVE SumLen(_)
SumLen(ss) == IF ss = <<>> THEN 0 ELSE Len(Head(ss)) + SumLen(Tail(ss))

\* C9: the assembler starts with every temporary file present and whole;
\* while it runs, the destination and the buffer of `outfile` together hold
\* the files combined so far, in order; when it has run and closed the
\* destination, the destination holds the temporary files' bytes
\* concatenated in chunk order, as long as all of them together, and no
\* temporary file exists any more.
C9_Assembly ==
    LET audios == [n \in 1..Len(chunks) |-> ChunkAudio(n)]
    IN  /\ pc = "open_out"
           => \A n \in 1..Len(chunks) :
                 /\ temp_files[n] = TempFile(n - 1)
                 /\ fs[temp_files[n]] = File(audios[n])
        /\ pc \in {"combine", "remove", "close_out"}
           => fs[output_path].bytes \o buffered
                 = Concat(SubSeq(audios, 1, IF pc = "remove" THEN k + 1 ELSE k))
        /\ (chunked /\ pc \in {"finish", "done"})
           => /\ fs[output_path].exists
              /\ buffered = <<>>
              /\ fs[output_path].bytes = Concat(audios)
              /\ Len(fs[output_path].bytes) = SumLen(audios)
              /\ \A n \in 0..MaxChunks : ~fs[TempFile(n)].exists

\* C9's case: three temporary files have been combined.
C9_Witness ==
    /\ chunked
    /\ pc = "done"
    /\ Len(temp_files) = 3
    /\ Len(fs[output_path].bytes) = 2500

\* C10: the chunks are synthesized one at a time in increasing index order:
\* the first synthesis attempt of chunk N is made only when the persist of
\* every earlier chunk has completed and left its temporary file whole, and
\* while chunk N is in flight no other chunk is.
C10_SequentialChunks ==
    chunked =>
       /\ \E n \in 0..Len(chunks) : started = Upto(n)
       /\ \E n \in 0..Len(chunks) : persisted = Upto(n)
       /\ Len(persisted) <= Len(started)
       /\ Len(started) <= Len(persisted) + 1
       /\ Len(started) \in {i, i + 1}
       /\ pc \in {"create", "create_wait", "save", "saving", "save_wait"}
             => /\ persisted = Upto(i)
                /\ temp_files = [n \in 1..i |-> TempFile(n - 1)]
                /\ \A n \in 1..i : fs[TempFile(n - 1)] = File(ChunkAudio(n))
       /\ pc \in {"save", "saving", "save_wait"} => tts.text = chunks[i + 1]

\* C10's case: the third chunk is being synthesized, after a retry.
C10_Witness ==
    /\ chunked
    /\ pc = "create"
    /\ i = 2
    /\ attempt = 1

\* C11: a conversion of N chunks sleeps chunk_delay once between every two
\* consecutive chunks and nowhere else: the sleep after chunk n comes when its
\* persist has completed and before chunk n+1 is first synthesized; a
\* successful conversion has made exactly N-1 of them (2 for 3 chunks), none
\* after the last chunk, and a text that is not split makes none.
C11_InterChunkDelays ==
    /\ delays = [n \in 1..Len(delays) |-> chunk_delay]
    /\ ~chunked => delays = <<>>
    /\ chunked =>
          /\ Len(delays) = i
          /\ Len(delays) < Len(chunks)
          /\ pc = "delay" => (Len(persisted) = i + 1 /\ Len(started) = i + 1)
          /\ Len(delays) <= Len(persisted)
          /\ Len(started) <= Len(delays) + 1
          /\ pc \in {"open_out", "combine", "remove", "close_out", "finish", "done"}
                => Len(delays) = Len(chunks) - 1
          /\ (pc = "done" /\ Len(chunks) = 3) => delays = <<2, 2>>

\* C11's case: a conversion of three chunks has succeeded.
C11_Witness ==
    /\ chunked
    /\ pc = "done"
    /\ result.success
    /\ Len(chunks) = 3
    /\ Len(delays) = 2

\* C14 as stated: when the assembler fails on a temporary file it cannot
\* read, no temporary file remains. It fails: the exception leaves the loop
\* of line 118 at once, and neither convert nor its caller removes the file
\* that could not be read or those after it.
C14_AssemblyFailureLeavesNoTemp ==
    (pc = "failed" /\ result.error.op = "read")
       => \A n \in 0..MaxChunks : ~fs[TempFile(n)].exists

\* The phases of the thread: 0 idle, 1 synthesizing, 2 assembling, 3 about to
\* record success, 4 done or failed.
Phase(p) ==
    CASE p \in {"unstarted", "convert"} -> 0
      [] p \in {"create", "create_wait", "save", "saving", "save_wait", "delay"} -> 1
      [] p \in {"open_out", "combine", "remove", "close_out"} -> 2
      [] p = "finish" -> 3
      [] p \in {"done", "failed"} -> 4

\* C18: the thread only moves forward through idle, chunking, synthesizing
\* chunk 0..N-1 in order, assembling and done, or from any of them to failed;
\* once done or failed, its record and its position never change; and its
\* record never holds both success and a failure detail: success is recorded
\* only when the last persist or the assembly has completed.
C18_TerminalSingleOutcome ==
    /\ [](/\ ~(result.success /\ result.error # None)
          /\ result.success <=> pc = "done"
          /\ result.error # None <=> pc = "failed"
          /\ pc = "done" => WholeSequenceDone)
    /\ [][/\ Phase(pc') >= Phase(pc)
          /\ pc' = "done" => pc \in {"finish", "done"}
          /\ (Phase(pc) = 1 /\ Phase(pc') = 1) => i' \in {i, i + 1}
          /\ (Phase(pc) = 1 /\ Phase(pc') = 2) => i = Len(chunks) - 1
          /\ (Phase(pc) = 2 /\ Phase(pc') = 2) => k' \in {k, k + 1}
          /\ Phase(pc) = 4 => (pc' = pc /\ result' = result)]_vars

\* C18's case: the thread failed while assembling, after two of three
\* temporary files were combined.
C18_Witness ==
    /\ pc = "failed"
    /\ result.error = ErrorOf("read", 3)
    /\ ~result.success

\* The number of chunks of the conversion: 1 for a text that is not split.
NChunks == IF chunked THEN Len(chunks) ELSE 1

\* C20: synthesize and persist have their own budgets: each chunk gets at
\* most max_retries calls of gTTS(...) and at most max_retries calls of
\* tts.save(...), a failed persist is tried again without synthesizing again,
\* so a conversion of N chunks makes at most 2 * max_retries * N backend
\* calls; and when every call and file operation returns, the thread ends
\* done or failed.
C20_BoundedWork ==
    /\ [](/\ calls.create <= max_retries
          /\ calls.save <= max_retries
          /\ calls.total <= 2 * max_retries * (i + 1)
          /\ Phase(pc) > 0 => calls.total <= 2 * max_retries * NChunks)
    /\ [][(pc \in {"save", "saving", "save_wait"})
             => (calls'.create \in {calls.create, 0} /\ tts' = tts
                 /\ pc' \notin {"create", "create_wait"})]_vars
    /\ <>(pc \in {"done", "failed"})

\* C20's case: a conversion of three chunks has spent every attempt, 3
\* syntheses and 3 persists on each chunk, and failed on the very last.
C20_Witness ==
    /\ pc = "failed"
    /\ Len(chunks) = 3
    /\ i = 2
    /\ calls = [on |-> TRUE, create |-> 3, save |-> 3, total |-> 18]

(***************************************************************************)
(* Two requests at once. The second request is seen through its file       *)
(* operations: at any moment it may write or delete any of the paths the   *)
(* code derives from its own identifier and file name. `fs` holds the      *)
(* files of the first request, so such an operation shows in it only when  *)
(* it hits one of the first request's paths.                               *)
(***************************************************************************)
\* Audio of the second request: no frame of the first request equals it.
OtherAudio == <<<<"other", 0>>>>

\* File names of the second request: the same name as the first request's,
\* and one whose destination is named like a chunk file of a.pdf.
OtherNames == {<<"a", ".pdf">>, <<"a", ".mp3", ".chunk_", "0", ".pdf">>}

OtherFileOp ==
    /\ other # NoOther
    /\ \E p \in PathsOf(other.id, other.filename) :
       \E v \in {Absent, File(OtherAudio)} :
          fs' = IF p \in DOMAIN fs THEN [fs EXCEPT ![p] = v] ELSE fs
    /\ UNCHANGED <<reqVars, text, language, supVars, threadVars>>

\* The first request is a convertible upload of a.pdf; the second has
\* drawn its identifier already.
IsolationInit ==
    /\ request \in {r \in Requests :
                       /\ r.has_file /\ r.filename = <<"a", ".pdf">>
                       /\ r.size = max_size /\ r.pdf = "ok"
                       /\ Len(r.text) >= max_chunk_size
                       /\ r.form = <<>>}
    /\ other \in [id : Ids, filename : OtherNames]
    /\ h = "request"
    /\ unique_id = ""
    /\ caught = NoException
    /\ response = NoResponse
    /\ text = <<>>
    /\ language = "en"
    /\ sup = "idle"
    /\ calls = NoCalls(FALSE)
    /\ Unstarted
    /\ fs = [p \in {} |-> Absent]

IsolationNext == Handler \/ Supervisor \/ Worker \/ OtherFileOp

IsolationSpec == IsolationInit /\ [][IsolationNext]_vars

\* The handler has answered with its failure response after it had called
\* text_to_mp3_optimized.
ConversionFailed == h = "responded" /\ response.status = 500 /\ sup # "idle"

\* C12: whenever the request has ended in failure after the conversion was
\* started, no file is left at the destination path. It fails after a
\* timeout: the thread is not stopped, and it opens and writes the
\* destination after the handler's cleanup has looked for it.
C12_NoOutputAfterFailure ==
    ConversionFailed => ~fs[output_path].exists

\* C13: once the handler has finished its failure cleanup after a timeout,
\* the abandoned thread no longer creates or writes the destination or any
\* temporary chunk file. It fails: the thread goes on saving chunks and
\* assembling the destination.
C13_AbandonedThreadWritesNothing ==
    [][(ConversionFailed /\ response.exception.kind = "TimeoutError")
          => fs' = fs]_vars

\* C15: when chunk i > 0 of a conversion has exhausted its retries and the
\* request has got its failure response, the temporary files saved for chunks
\* 0..i-1 are gone. It fails: the cleanup of lines 262-266 removes the upload
\* and the destination only, and the thread removes its chunk files only
\* after a complete assembly.
C15_NoTempAfterRetryExhaustion ==
    (/\ ConversionFailed
     /\ response.exception.kind = "ConversionError"
     /\ pc = "failed"
     /\ result.error.op \in {"create", "save"}
     /\ i > 0)
    => \A n \in 0..(i - 1) : ~fs[TempFile(n)].exists

\* The language field of the request's form, if it has one.
HasLanguage == \E n \in DOMAIN request.form : request.form[n][1] = "language"
Requested == FormGet(request.form, "language", "")

\* A request that passes every check upload_file makes before converting.
Convertible ==
    /\ request.has_file
    /\ allowed_file(request.filename)
    /\ request.size <= max_size
    /\ request.pdf = "ok"
    /\ \E n \in DOMAIN request.text : request.text[n] # Space

\* C17: the language text_to_mp3_optimized is called with, and every
\* language the backend is asked for, is a supported one; it is the requested
\* code when that is supported and en when the code is unsupported or
\* absent; and the language never makes a request fail: a request that
\* passes the checks of the file is converted and never answered with 400.
C17_LanguageSelection ==
    /\ sup # "idle" =>
          /\ language \in supported_languages
          /\ tts.lang \in supported_languages
          /\ \A p \in DOMAIN fs \ {pdf_path} : \A n \in DOMAIN fs[p].bytes :
                 fs[p].bytes[n][1] = language
          /\ (HasLanguage /\ Requested \in supported_languages)
                 => language = Requested
          /\ (~HasLanguage \/ Requested \notin supported_languages)
                 => language = "en"
    /\ Convertible =>
          /\ response.status # 400
          /\ h \in {"converting", "cleanup_pdf", "cleanup_mp3", "responded"}
                 => sup # "idle"

\* An unsupported code was requested and the request succeeded in English.
C17_Witness ==
    /\ h = "responded"
    /\ response.status = 200
    /\ request.form = <<<<"language", "xx">>>>
    /\ language = "en"
    /\ fs[output_path] = File(Audio([text |-> text, lang |-> "en"]))

\* C19: from the moment the upload is saved until the handler removes it the
\* upload is on disk, and once the handler has returned, by whichever path,
\* it is not; nothing creates it again.
C19_UploadRemoved ==
    /\ h \in {"validate", "extract", "converting", "cleanup_pdf"}
          => fs[pdf_path] = File(PdfBytes)
    /\ (h \in {"cleanup_mp3", "responded"} /\ unique_id # "")
          => ~fs[pdf_path].exists

\* The conversion timed out, the handler has answered 500, the thread still
\* runs, and the upload is gone.
C19_Witness ==
    /\ h = "responded"
    /\ response.status = 500
    /\ response.exception.kind = "TimeoutError"
    /\ IsAlive
    /\ ~fs[pdf_path].exists

\* The paths of the second request.
OtherPaths == PathsOf(other.id, other.filename)

\* C16: the paths the code derives for two requests with distinct
\* identifiers are disjoint, whatever their file names, so no write or
\* delete of one request shows in a file of the other; the request starts
\* exactly one thread; and the destination of a successful request is the
\* audio of its own chunks concatenated in order, and nothing else.
C16_RequestIsolation ==
    /\ [](/\ unique_id # "" =>
                /\ unique_id # other.id
                /\ DOMAIN fs = Paths
                /\ Paths \cap OtherPaths = {}
                /\ \A p \in Paths : \A n \in DOMAIN fs[p].bytes :
                       fs[p].bytes[n] \notin {OtherAudio[1]}
          /\ threads = (IF sup \in {"idle", "start"} THEN 0 ELSE 1)
          /\ (sup = "returned" \/ response.status = 200) =>
                /\ fs[output_path] =
                      File(Concat([n \in 1..NChunks |->
                              Audio([text |-> PySlice(text, (n - 1) * max_chunk_size,
                                                      n * max_chunk_size),
                                     lang |-> language])]))
                /\ \A n \in 0..MaxChunks : ~fs[TempFile(n)].exists)
    /\ [][OtherFileOp => fs' = fs]_vars

\* A request of several chunks has succeeded next to a second request whose
\* destination is named like a chunk file.
C16_Witness ==
    /\ h = "responded"
    /\ response.status = 200
    /\ chunked
    /\ Len(chunks) = MaxChunks - 1
    /\ other.filename = <<"a", ".mp3", ".chunk_", "0", ".pdf">>
    /\ threads = 1

====
